---- MODULE Spec2Model ----
(***************************************************************************)
(* A model of tgfmt: Praat TextGrid tiers (Interval, Point, IntervalTier,  *)
(* PointTier) and the TextGrid container with its writer and reader.       *)
(*                                                                         *)
(* Python values are modelled as records.  An Interval is                  *)
(*   [kind |-> "Interval", minTime, maxTime, mark, strict],                *)
(* a Point is [kind |-> "Point", time, mark] and a bare number t is        *)
(* [num |-> t], so that hasattr(other, 'minTime') is a test on the         *)
(* record's domain, as in the source.  None is the empty tuple and a set   *)
(* optional value x is the one-element tuple <<x>>.  A mark is a tuple of  *)
(* one-character strings.  Times are integers: only their order matters    *)
(* to the tiers.  A written file is the record of its fields, each quoted  *)
(* entry being the physical lines print() made of it.  handles is the set  *)
(* of file handles that are open.                                          *)
(***************************************************************************)
EXTENDS Integers, Sequences, FiniteSets, TLC

VARIABLES tier, grid, file, mlf, handles, last

vars == <<tier, grid, file, mlf, handles, last>>

\* ---------------------------------------------------------------- bounds

\* Largest time the tier operations are called with.
MaxTime == 2

\* Longest element list a tier is grown to: an add that would make the
\* list longer is not called.
MaxLen == 3

Times == -1 .. MaxTime

Marks == {<<"x">>, <<"y">>}

\* ------------------------------------------------------ optional values

None == <<>>

Some(x) == <<x>>

\* Python truthiness of an optional number: None and 0 are falsy.
Truthy(x) == x # None /\ x[1] # 0

HasAttr(o, a) == a \in DOMAIN o

Num(t) == [num |-> t]

\* A comparison either raises or returns a value.
Raise == [raised |-> TRUE, val |-> FALSE]

Ret(v) == [raised |-> FALSE, val |-> v]

\* -------------------------------------------------------------- Interval

Interval(minTime, maxTime, mark) ==
    [kind |-> "Interval", minTime |-> minTime, maxTime |-> maxTime,
     mark |-> mark, strict |-> TRUE]

Point(time, mark) == [kind |-> "Point", time |-> time, mark |-> mark]

overlaps(self, other) ==
    other.minTime < self.maxTime /\ self.minTime < other.maxTime

\* Interval_lt without the strict overlap check.
Interval_lt_noRaise(self, other) ==
    IF HasAttr(other, "minTime") THEN Ret(self.minTime < other.minTime)
    ELSE IF HasAttr(other, "time") THEN Ret(self.maxTime < other.time)
    ELSE Ret(self.maxTime < other.num)

Interval_lt(self, other) ==
    IF HasAttr(other, "minTime")
    THEN IF self.strict /\ overlaps(self, other) THEN Raise
         ELSE IF overlaps(self, other) THEN Ret(self.minTime < other.minTime)
         ELSE Ret(self.minTime < other.minTime)
    ELSE IF HasAttr(other, "time") THEN Ret(self.maxTime < other.time)
    ELSE Ret(self.maxTime < other.num)

\* __eq__ returns True, False, or falls off its end and returns None.
Interval_eq(self, other) ==
    IF HasAttr(other, "minTime") /\ HasAttr(other, "maxTime")
    THEN IF self.minTime = other.minTime /\ self.maxTime = other.maxTime
         THEN "True" ELSE "None"
    ELSE IF HasAttr(other, "time")
    THEN IF self.minTime < other.time /\ other.time < self.maxTime
         THEN "True" ELSE "False"
    ELSE "False"

\* ----------------------------------------------------------------- Point

Point_lt(self, other) ==
    IF HasAttr(other, "time") THEN Ret(self.time < other.time)
    ELSE IF HasAttr(other, "minTime") THEN Ret(self.time < other.minTime)
    ELSE Ret(self.time < other.num)

Point_gt(self, other) ==
    IF HasAttr(other, "time") THEN Ret(self.time > other.time)
    ELSE IF HasAttr(other, "maxTime") THEN Ret(self.time > other.maxTime)
    ELSE Ret(self.time > other.num)

Point_eq(self, other) ==
    IF HasAttr(other, "kind") /\ other.kind = "Point"
    THEN IF self.time = other.time THEN "True" ELSE "False"
    ELSE IF HasAttr(other, "kind") /\ other.kind = "Interval"
    THEN IF other.minTime < self.time /\ self.time < other.maxTime
         THEN "True" ELSE "False"
    ELSE IF self.time = other.num THEN "True" ELSE "False"

\* a < b and a == b as Python dispatches them: the left operand's method.
Lt(a, b) == IF a.kind = "Interval" THEN Interval_lt(a, b) ELSE Point_lt(a, b)

Eq(a, b) == IF a.kind = "Interval" THEN Interval_eq(a, b) ELSE Point_eq(a, b)

\* ------------------------------------------------------------ list tools

\* bisect.bisect_left(a, x): lo and hi are 0-based as in Python.
RECURSIVE bisect(_, _, _, _)
bisect(a, x, lo, hi) ==
    IF lo < hi
    THEN LET mid == (lo + hi) \div 2
             c == Lt(a[mid + 1], x)
         IN IF c.raised THEN [raised |-> TRUE, val |-> 0]
            ELSE IF c.val THEN bisect(a, x, mid + 1, hi)
            ELSE bisect(a, x, lo, mid)
    ELSE [raised |-> FALSE, val |-> lo]

bisect_left(a, x) == bisect(a, x, 0, Len(a))

\* list.append(x) where list.insert(i, x) was meant.
list_insert_atEnd(a, i, x) == Append(a, x)

\* list.insert(i, x), i 0-based.
list_insert(a, i, x) == SubSeq(a, 1, i) \o <<x>> \o SubSeq(a, i + 1, Len(a))

\* The last, not the first, item comparing equal to x.
list_index_last(a, x) ==
    LET hits == {k \in 1 .. Len(a) : Eq(a[k], x) = "True"}
    IN IF hits = {} THEN None
       ELSE Some((CHOOSE k \in hits : \A j \in hits : k >= j) - 1)

\* The 0-based index list.remove(x) deletes: the first item comparing
\* equal to x; None when there is none (ValueError).
list_index(a, x) ==
    LET hits == {k \in 1 .. Len(a) : Eq(a[k], x) = "True"}
    IN IF hits = {} THEN None
       ELSE Some((CHOOSE k \in hits : \A j \in hits : k <= j) - 1)

list_delete(a, i) == SubSeq(a, 1, i) \o SubSeq(a, i + 2, Len(a))

\* The result of a tier operation: the outcome ("ok" or the error raised),
\* the tier after it and the 0-based position it acted on.
Result(outcome, self, index) ==
    [outcome |-> outcome, tier |-> self, index |-> index]

\* ---------------------------------------------------------- IntervalTier

IntervalTier(name, minTime, maxTime) ==
    [class |-> "IntervalTier", name |-> name, minTime |-> minTime,
     maxTime |-> maxTime, intervals |-> <<>>, strict |-> TRUE]

addInterval(self, interval) ==
    IF interval.minTime < self.minTime
    THEN Result("too_early", self, None)
    ELSE IF Truthy(self.maxTime) /\ interval.maxTime > self.maxTime[1]
    THEN Result("too_late", self, None)
    ELSE LET i == bisect_left(self.intervals, interval)
         IN IF i.raised THEN Result("overlap", self, None)
            ELSE IF i.val # Len(self.intervals)
                    /\ Interval_eq(self.intervals[i.val + 1], interval) = "True"
            THEN Result("duplicate", self, None)
            ELSE Result("ok",
                        [self EXCEPT !.intervals =
                            list_insert(self.intervals, i.val,
                                        [interval EXCEPT !.strict = self.strict])],
                        Some(i.val))

\* Interval.__init__ rejects minTime >= maxTime before the tier is touched.
IntervalTier_add(self, minTime, maxTime, mark) ==
    IF minTime >= maxTime THEN Result("degenerate", self, None)
    ELSE addInterval(self, [Interval(minTime, maxTime, mark)
                               EXCEPT !.strict = self.strict])

removeInterval(self, interval) ==
    LET i == list_index(self.intervals, interval)
    IN IF i = None THEN Result("not_found", self, None)
       ELSE Result("ok",
                   [self EXCEPT !.intervals = list_delete(self.intervals, i[1])],
                   i)

IntervalTier_remove(self, minTime, maxTime, mark) ==
    IF minTime >= maxTime THEN Result("degenerate", self, None)
    ELSE removeInterval(self, Interval(minTime, maxTime, mark))

\* indexContaining that does not count an interval's end points.
indexContaining_openEnds(self, time) ==
    LET i == bisect_left(self.intervals, Num(time))
    IN IF i.val # Len(self.intervals)
          /\ self.intervals[i.val + 1].minTime < time
          /\ time < self.intervals[i.val + 1].maxTime
       THEN Some(i.val) ELSE None

\* The index returned, or None.
indexContaining(self, time) ==
    LET i == bisect_left(self.intervals, Num(time))
    IN IF i.val # Len(self.intervals)
          /\ self.intervals[i.val + 1].minTime <= time
          /\ time <= self.intervals[i.val + 1].maxTime
       THEN Some(i.val) ELSE None

intervalContaining(self, time) ==
    LET i == indexContaining(self, time)
    IN IF i # None THEN Some(self.intervals[i[1] + 1]) ELSE None

\* The loop of _fillInTheGaps over intervals k .. end, with prev_t and the
\* output so far.
RECURSIVE fillLoop(_, _, _, _, _)
fillLoop(intervals, k, prev_t, output, null) ==
    IF k > Len(intervals) THEN [prev_t |-> prev_t, output |-> output]
    ELSE LET interval == intervals[k]
             gap == IF prev_t < interval.minTime
                    THEN <<Interval(prev_t, interval.minTime, null)>>
                    ELSE <<>>
         IN fillLoop(intervals, k + 1, interval.maxTime,
                     output \o gap \o <<interval>>, null)

\* _fillInTheGaps without the filler after the last interval.
fillInTheGaps_noTail(self, null) ==
    fillLoop(self.intervals, 1, self.minTime, <<>>, null).output

fillInTheGaps(self, null) ==
    LET r == fillLoop(self.intervals, 1, self.minTime, <<>>, null)
    IN IF self.maxTime # None /\ r.prev_t < self.maxTime[1]
       THEN r.output \o <<Interval(r.prev_t, self.maxTime[1], null)>>
       ELSE r.output

\* ------------------------------------------------------------- PointTier

PointTier(name, minTime, maxTime) ==
    [class |-> "PointTier", name |-> name, minTime |-> minTime,
     maxTime |-> maxTime, points |-> <<>>]

\* addPoint without the test for a point already at that time.
addPoint_noDuplicateTest(self, point) ==
    IF Point_lt(point, Num(self.minTime)).val
    THEN Result("too_early", self, None)
    ELSE IF Truthy(self.maxTime) /\ Point_gt(point, Num(self.maxTime[1])).val
    THEN Result("too_late", self, None)
    ELSE LET i == bisect_left(self.points, point)
         IN Result("ok",
                   [self EXCEPT !.points = list_insert(self.points, i.val, point)],
                   Some(i.val))

addPoint(self, point) ==
    IF Point_lt(point, Num(self.minTime)).val
    THEN Result("too_early", self, None)
    ELSE IF Truthy(self.maxTime) /\ Point_gt(point, Num(self.maxTime[1])).val
    THEN Result("too_late", self, None)
    ELSE LET i == bisect_left(self.points, point)
         IN IF i.val < Len(self.points)
               /\ self.points[i.val + 1].time = point.time
            THEN Result("duplicate", self, None)
            ELSE Result("ok",
                        [self EXCEPT !.points =
                            list_insert(self.points, i.val, point)],
                        Some(i.val))

PointTier_add(self, time, mark) == addPoint(self, Point(time, mark))

removePoint(self, point) ==
    LET i == list_index(self.points, point)
    IN IF i = None THEN Result("not_found", self, None)
       ELSE Result("ok",
                   [self EXCEPT !.points = list_delete(self.points, i[1])],
                   i)

PointTier_remove(self, time, mark) == removePoint(self, Point(time, mark))

\* --------------------------------------------- the tier state machine

\* The tier as constructed: the caller chooses its bounds.  An IntervalTier
\* may be made non-strict while it is still empty (tier.strict = False, or
\* TextGrid(strict=False).append(tier)).
TierMinTimes == {-1, 0}

TierMaxTimes == {None, Some(0), Some(MaxTime - 1), Some(MaxTime)}

NoGrid == <<>>

NoMLF == <<>>

Elems(t) == IF t.class = "IntervalTier" THEN t.intervals ELSE t.points

\* What the last call did: the operation, its outcome, the 0-based position
\* it acted on (or returned), the element it inserted or removed (the time
\* asked for, for a lookup), the element list before it and the list a
\* query returned.  A failed IntervalTier call leaves no argument behind.
Last(op, arg, r, pre, out) ==
    [op |-> op,
     arg |-> IF r.outcome = "ok" \/ arg.kind = "Point" THEN arg ELSE None,
     outcome |-> r.outcome, index |-> r.index, pre |-> pre, out |-> out]

Init ==
    /\ \/ \E mn \in TierMinTimes, mx \in TierMaxTimes :
             tier = IntervalTier(None, mn, mx)
       \/ \E mx \in {None, Some(MaxTime - 1)} :
             tier = [IntervalTier(None, 0, mx) EXCEPT !.strict = FALSE]
       \/ \E mn \in TierMinTimes, mx \in TierMaxTimes :
             tier = PointTier(None, mn, mx)
    /\ grid = NoGrid
    /\ file = None
    /\ mlf = NoMLF
    /\ handles = {}
    /\ last = [op |-> "init", arg |-> None, outcome |-> "ok", index |-> None,
               pre |-> <<>>, out |-> <<>>]

\* A non-strict tier accepts overlapping intervals, so it is grown from a
\* narrower range of times, with one mark.
AddTimes(t) == IF t.strict THEN Times ELSE 0 .. MaxTime

AddMarks(t) == IF t.strict THEN Marks ELSE {<<"x">>}

Add ==
    /\ tier.class = "IntervalTier"
    /\ \E s \in AddTimes(tier), e \in AddTimes(tier), m \in AddMarks(tier) :
          LET r == IntervalTier_add(tier, s, e, m)
          IN /\ Len(r.tier.intervals) <= MaxLen
             /\ tier' = r.tier
             /\ last' = Last("add", Interval(s, e, m), r, tier.intervals, <<>>)
    /\ UNCHANGED <<grid, file, mlf, handles>>

Remove ==
    /\ tier.class = "IntervalTier"
    /\ \E s \in Times, e \in Times, m \in Marks :
          LET r == IntervalTier_remove(tier, s, e, m)
          IN /\ tier' = r.tier
             /\ last' = Last("remove", Interval(s, e, m), r, tier.intervals, <<>>)
    /\ UNCHANGED <<grid, file, mlf, handles>>

\* Lookups also ask for times outside every tier.
QueryTimes == -2 .. MaxTime + 1

IndexContaining ==
    /\ tier.class = "IntervalTier"
    /\ \E t \in QueryTimes :
          last' = Last("indexContaining", [kind |-> "num", num |-> t],
                       Result("ok", tier, indexContaining(tier, t)),
                       tier.intervals, <<>>)
    /\ UNCHANGED <<tier, grid, file, mlf, handles>>

FillInTheGaps ==
    /\ tier.class = "IntervalTier"
    /\ last' = Last("fillInTheGaps", [kind |-> "none"], Result("ok", tier, None),
                    tier.intervals, fillInTheGaps(tier, <<>>))
    /\ UNCHANGED <<tier, grid, file, mlf, handles>>

AddPoint ==
    /\ tier.class = "PointTier"
    /\ \E t \in Times, m \in Marks :
          LET r == PointTier_add(tier, t, m)
          IN /\ Len(r.tier.points) <= MaxLen
             /\ tier' = r.tier
             /\ last' = Last("add", Point(t, m), r, tier.points, <<>>)
    /\ UNCHANGED <<grid, file, mlf, handles>>

RemovePoint ==
    /\ tier.class = "PointTier"
    /\ \E t \in Times, m \in Marks :
          LET r == PointTier_remove(tier, t, m)
          IN /\ tier' = r.tier
             /\ last' = Last("remove", Point(t, m), r, tier.points, <<>>)
    /\ UNCHANGED <<grid, file, mlf, handles>>

Next ==
    \/ Add
    \/ Remove
    \/ IndexContaining
    \/ FillInTheGaps
    \/ AddPoint
    \/ RemovePoint

Spec == Init /\ [][Next]_vars

\* ===================================================== the tier claims

StrictTier == tier.class = "IntervalTier" /\ tier.strict

LooseTier == tier.class = "IntervalTier" /\ ~tier.strict

IsPointTier == tier.class = "PointTier"

Errors == {"degenerate", "too_early", "too_late", "overlap", "duplicate",
           "not_found"}

\* The claims' own reading of "overlaps" and "same element", written on the
\* bounds and not through the model's comparison operators.
Meets(iv, s, e) == iv.minTime < e /\ s < iv.maxTime

SameBounds(a, b) == a.minTime = b.minTime /\ a.maxTime = b.maxTime

Ascending(a) == \A i, j \in 1 .. Len(a) : i < j => a[i].minTime < a[j].minTime

NonDescending(a) ==
    \A i, j \in 1 .. Len(a) : i < j => a[i].minTime <= a[j].minTime

\* C1: after any sequence of add and remove calls on a strict IntervalTier,
\* succeeding or failing, the intervals are in ascending order of minTime.
C1_StrictTierAscending == StrictTier => Ascending(tier.intervals)

\* An add that put its interval in front of two older ones.
C1_Witness ==
    /\ StrictTier
    /\ last.op = "add" /\ last.outcome = "ok"
    /\ last.index = Some(0)
    /\ Len(last.pre) >= 2

\* C2: in a strict IntervalTier, add(s, e, mark) fails and leaves the tier
\* as it was whenever [s, e] overlaps an interval of the tier, wherever that
\* interval is in the list; and no two intervals of the tier overlap.
C2_StrictOverlapRejected ==
    StrictTier =>
        /\ \A i, j \in 1 .. Len(tier.intervals) :
              i # j => ~Meets(tier.intervals[i], tier.intervals[j].minTime,
                              tier.intervals[j].maxTime)
        /\ \A s \in Times, e \in Times, m \in Marks :
              (\E k \in 1 .. Len(tier.intervals) : Meets(tier.intervals[k], s, e))
              => LET r == IntervalTier_add(tier, s, e, m)
                 IN r.outcome \in Errors /\ r.tier = tier

\* An add refused for overlap by a tier of three intervals.
C2_Witness ==
    /\ StrictTier
    /\ last.op = "add" /\ last.outcome = "overlap"
    /\ Len(tier.intervals) >= 3

InBounds(t, s, e) ==
    s < e /\ t.minTime <= s /\ (t.maxTime = None \/ e <= t.maxTime[1])

\* C3 as claimed: in a non-strict tier, add of any in-bounds interval that
\* overlaps an interval of the tier, one with the same minTime and maxTime
\* included, succeeds, the tier gains one element and stays in minTime order.
C3_LooseAddAlwaysSucceeds ==
    LooseTier =>
        \A s \in Times, e \in Times, m \in Marks :
           (/\ InBounds(tier, s, e)
            /\ \E k \in 1 .. Len(tier.intervals) : Meets(tier.intervals[k], s, e))
           => LET r == IntervalTier_add(tier, s, e, m)
              IN /\ r.outcome = "ok"
                 /\ Len(r.tier.intervals) = Len(tier.intervals) + 1
                 /\ NonDescending(r.tier.intervals)

\* The position add looks at: the first interval whose minTime is not below
\* s (0-based; the length of the list when there is none).
Slot(a, s) == Cardinality({k \in 1 .. Len(a) : a[k].minTime < s})

\* C3 as amended: the add succeeds, the tier gains exactly that interval and
\* stays in minTime order, unless the interval at the insertion position has
\* the same minTime and maxTime: then the add fails as a duplicate and the
\* tier is unchanged.  A non-strict tier is in minTime order in every state.
C3_LooseAddUnlessDuplicate ==
    LooseTier =>
        /\ NonDescending(tier.intervals)
        /\ \A s \in Times, e \in Times, m \in Marks :
              (/\ InBounds(tier, s, e)
               /\ \E k \in 1 .. Len(tier.intervals) : Meets(tier.intervals[k], s, e))
              => LET r == IntervalTier_add(tier, s, e, m)
                     i == Slot(tier.intervals, s)
                     new == [Interval(s, e, m) EXCEPT !.strict = FALSE]
                 IN IF i < Len(tier.intervals)
                       /\ SameBounds(tier.intervals[i + 1], new)
                    THEN r.outcome = "duplicate" /\ r.tier = tier
                    ELSE /\ r.outcome = "ok"
                         /\ Len(r.tier.intervals) = Len(tier.intervals) + 1
                         /\ r.tier.intervals[i + 1] = new
                         /\ \A k \in 1 .. Len(tier.intervals) :
                               r.tier.intervals[IF k <= i THEN k ELSE k + 1]
                                  = tier.intervals[k]
                         /\ NonDescending(r.tier.intervals)

\* An add into a non-strict tier of an interval overlapping an older one
\* with the same minTime.
C3_Witness ==
    /\ LooseTier
    /\ last.op = "add" /\ last.outcome = "ok"
    /\ \E k \in 1 .. Len(last.pre) :
          /\ Meets(last.pre[k], last.arg.minTime, last.arg.maxTime)
          /\ last.pre[k].minTime = last.arg.minTime

\* C4: a PointTier never holds two points with the same time: add(t, mark)
\* fails as a duplicate whenever a point with time t is present, whatever
\* the marks, and the points are in ascending time order.
C4_PointTimesUnique ==
    IsPointTier =>
        /\ \A i, j \in 1 .. Len(tier.points) :
              i < j => tier.points[i].time < tier.points[j].time
        /\ \A t \in Times, m \in Marks :
              (\E k \in 1 .. Len(tier.points) : tier.points[k].time = t)
              => LET r == PointTier_add(tier, t, m)
                 IN r.outcome = "duplicate" /\ r.tier = tier

\* add(1, "y") refused by a tier holding the point (1, "x").
C4_Witness ==
    /\ IsPointTier
    /\ last.op = "add" /\ last.outcome = "duplicate"
    /\ last.arg = Point(1, <<"y">>)
    /\ \E k \in 1 .. Len(tier.points) : tier.points[k] = Point(1, <<"x">>)

ElemMin(x) == IF x.kind = "Interval" THEN x.minTime ELSE x.time

ElemMax(x) == IF x.kind = "Interval" THEN x.maxTime ELSE x.time

\* C5: when a tier's maxTime is set, to 0 or to any other number, every
\* element lies within [minTime, maxTime], since add refuses an element that
\* starts before minTime or ends after maxTime.
C5_ElementsWithinBounds ==
    tier.maxTime # None =>
        \A k \in 1 .. Len(Elems(tier)) :
           /\ tier.minTime <= ElemMin(Elems(tier)[k])
           /\ ElemMax(Elems(tier)[k]) <= tier.maxTime[1]

Contiguous(out) ==
    \A k \in 1 .. Len(out) - 1 : out[k].maxTime = out[k + 1].minTime

IsFiller(x) == x.mark = <<>>

NotFiller(x) == x.mark # <<>>

\* C7 as claimed: for every strict tier built by add, the empty one
\* included, _fillInTheGaps starts at the tier's minTime, ends at its
\* maxTime, leaves no gap and no overlap, and holds the tier's intervals in
\* order plus fillers.
C7_FillCoversBounds ==
    (StrictTier /\ last.op = "fillInTheGaps") =>
        /\ last.out # <<>>
        /\ last.out[1].minTime = tier.minTime
        /\ tier.maxTime # None
        /\ last.out[Len(last.out)].maxTime = tier.maxTime[1]
        /\ Contiguous(last.out)
        /\ SelectSeq(last.out, NotFiller) = tier.intervals

LastMax(t) ==
    IF t.intervals = <<>> THEN t.minTime
    ELSE t.intervals[Len(t.intervals)].maxTime

\* C7 as amended: the sequence leaves no gap and no overlap and holds the
\* tier's intervals in order plus fillers carrying null; when it is not empty
\* it starts at the tier's minTime.  It ends at the tier's maxTime when that
\* is set and above the end of the last interval, and at the end of the last
\* interval otherwise (maxTime unset, or 0 and overrun: C5); it is empty
\* exactly when the tier is empty and maxTime is unset or not above minTime.
C7_FillCoversWhenBounded ==
    StrictTier =>
        LET out == fillInTheGaps(tier, <<>>)
        IN /\ Contiguous(out)
           /\ \A k \in 1 .. Len(out) : out[k].minTime < out[k].maxTime
           /\ SelectSeq(out, NotFiller) = tier.intervals
           /\ out # <<>> => out[1].minTime = tier.minTime
           /\ out # <<>> =>
                 out[Len(out)].maxTime =
                    IF tier.maxTime # None /\ LastMax(tier) < tier.maxTime[1]
                    THEN tier.maxTime[1] ELSE LastMax(tier)
           /\ (out = <<>>) <=>
                 /\ tier.intervals = <<>>
                 /\ (tier.maxTime = None \/ tier.maxTime[1] <= tier.minTime)
           /\ (Truthy(tier.maxTime) /\ tier.minTime < tier.maxTime[1]) =>
                 /\ out[1].minTime = tier.minTime
                 /\ out[Len(out)].maxTime = tier.maxTime[1]
           /\ last.op = "fillInTheGaps" => last.out = out

\* The scenario of the specification on the model's times: a tier holding
\* one interval strictly inside its bounds is filled in with one filler
\* before it and one after it.
C7_Witness ==
    /\ StrictTier
    /\ last.op = "fillInTheGaps"
    /\ Len(tier.intervals) = 1
    /\ Len(last.out) = 3
    /\ IsFiller(last.out[1]) /\ last.out[2] = tier.intervals[1]
    /\ IsFiller(last.out[3])

Holds(iv, t) == iv.minTime <= t /\ t <= iv.maxTime

\* C8: on a strict tier, intervalContaining(t) returns an interval of the
\* tier holding t whenever there is one and None otherwise (t in a gap or
\* outside every interval); indexContaining(t) returns the index of that
\* same interval, or None.
C8_ContainingFound ==
    StrictTier =>
        \A t \in QueryTimes :
           LET i == indexContaining(tier, t)
               iv == intervalContaining(tier, t)
           IN IF \E k \in 1 .. Len(tier.intervals) : Holds(tier.intervals[k], t)
              THEN /\ i # None
                   /\ i[1] + 1 \in 1 .. Len(tier.intervals)
                   /\ Holds(tier.intervals[i[1] + 1], t)
                   /\ iv = Some(tier.intervals[i[1] + 1])
              ELSE i = None /\ iv = None

\* A lookup that found an interval by its end point, another interval
\* starting there.
C8_Witness ==
    /\ StrictTier
    /\ last.op = "indexContaining"
    /\ last.index # None
    /\ tier.intervals[last.index[1] + 1].maxTime = last.arg.num
    /\ \E k \in 1 .. Len(tier.intervals) :
          tier.intervals[k].minTime = last.arg.num

SameElement(a, b) ==
    IF a.kind = "Interval" THEN SameBounds(a, b) ELSE a.time = b.time

\* What remove must do with the list a and the element x.
RemovesFirst(a, x, r, after) ==
    IF \E k \in 1 .. Len(a) : SameElement(a[k], x)
    THEN /\ r.outcome = "ok"
         /\ \E k \in 1 .. Len(a) :
               /\ SameElement(a[k], x)
               /\ \A j \in 1 .. k - 1 : ~SameElement(a[j], x)
               /\ r.index = Some(k - 1)
               /\ Len(after) = Len(a) - 1
               /\ \A j \in 1 .. Len(after) :
                     after[j] = a[IF j < k THEN j ELSE j + 1]
    ELSE r.outcome = "not_found" /\ after = a

\* C9: IntervalTier.remove and PointTier.remove delete exactly the first
\* element comparing equal to the one rebuilt from the arguments (same
\* minTime and maxTime, same time) and leave the rest in place; with no
\* such element they fail as not found and leave the tier unchanged.
C9_RemoveFirstMatch ==
    /\ tier.class = "IntervalTier" =>
          \A s \in Times, e \in Times, m \in Marks :
             s < e =>
                LET r == IntervalTier_remove(tier, s, e, m)
                IN /\ RemovesFirst(tier.intervals, Interval(s, e, m), r,
                                   r.tier.intervals)
                   /\ r.tier = [tier EXCEPT !.intervals = r.tier.intervals]
    /\ tier.class = "PointTier" =>
          \A t \in Times, m \in Marks :
             LET r == PointTier_remove(tier, t, m)
             IN /\ RemovesFirst(tier.points, Point(t, m), r, r.tier.points)
                /\ r.tier = [tier EXCEPT !.points = r.tier.points]

\* A remove from a non-strict tier that took the first of two intervals
\* with the asked bounds, whose mark was not the one asked for, and left
\* the second.
C9_Witness ==
    /\ last.op = "remove" /\ last.outcome = "ok"
    /\ last.arg.kind = "Interval"
    /\ last.pre[last.index[1] + 1].mark # last.arg.mark
    /\ \E k \in 1 .. Len(last.pre) :
          k > last.index[1] + 1 /\ SameBounds(last.pre[k], last.arg)
    /\ Len(tier.intervals) = Len(last.pre) - 1

\* ================================================== the TextGrid model

\* In the TextGrid model a time is a whole number of ticks, and the reader
\* rounds to steps of TicksPerStep ticks (10^-DEFAULT_TEXTGRID_PRECISION in
\* the source): a time written exactly is read back rounded.
TicksPerStep == 3

\* Most tiers a TextGrid is grown to: an append that would make it longer
\* is not called.
MaxTiers == 2

\* round(float(...), to_round)
round(t) == TicksPerStep * ((2 * t + TicksPerStep) \div (2 * TicksPerStep))

Quote == "\""

NL == "\n"

Whitespace == {" ", "\t", NL}

\* '{0}'.format(name): a tier without a name is written as None.
str(name) == IF name = None THEN "None" ELSE name[1]

\* The mark written with its double quotes as they are.
_formatMark_noDoubling(text) == text

\* text.replace('"', '""')
RECURSIVE _formatMark(_)
_formatMark(text) ==
    IF text = <<>> THEN <<>>
    ELSE (IF Head(text) = Quote THEN <<Quote, Quote>> ELSE <<Head(text)>>)
         \o _formatMark(Tail(text))

\* The physical lines of a text, each ending with its newline.
RECURSIVE splitlines(_, _)
splitlines(text, line) ==
    IF text = <<>> THEN (IF line = <<>> THEN <<>> ELSE <<line>>)
    ELSE IF Head(text) = NL
    THEN <<Append(line, NL)>> \o splitlines(Tail(text), <<>>)
    ELSE splitlines(Tail(text), Append(line, Head(text)))

\* print(text, file=sink): the lines the text and its newline make.  The
\* key and its " = " are one character here.
print(text) == splitlines(Append(text, NL), <<>>)

\* An entry read back with its doubled quotes left as they are.
unescape_not(s) == s

\* s.replace('""', '"')
RECURSIVE unescape(_)
unescape(s) ==
    IF s = <<>> THEN <<>>
    ELSE IF Len(s) >= 2 /\ s[1] = Quote /\ s[2] = Quote
    THEN <<Quote>> \o unescape(SubSeq(s, 3, Len(s)))
    ELSE <<Head(s)>> \o unescape(Tail(s))

count(line, c) == Cardinality({p \in 1 .. Len(line) : line[p] = c})

\* The loop of _getMark: lines are taken until the quotes are even; n is
\* the number of lines taken so far.
RECURSIVE readEntry(_, _, _)
readEntry(text, line, n) ==
    IF count(line, Quote) % 2 = 1
    THEN IF n >= Len(text) THEN [outcome |-> "EOFError", line |-> line, n |-> n]
         ELSE readEntry(text, line \o text[n + 1], n + 1)
    ELSE [outcome |-> "ok", line |-> line, n |-> n]

\* _getMark(text, short=False) on the lines that are left of the file: the
\* outcome, the mark and the number of lines taken.
_getMark(text) ==
    LET line == IF text = <<>> THEN <<>> ELSE text[1]
    IN IF ~(Len(line) >= 2 /\ line[1] \in {"text = ", "mark = "}
            /\ line[2] = Quote)
       THEN [outcome |-> "bad_entry", mark |-> <<>>, n |-> 1]
       ELSE LET e == readEntry(text, line, 1)
                closing == {p \in 3 .. Len(e.line) :
                               /\ e.line[p] = Quote
                               /\ \A q \in p + 1 .. Len(e.line) :
                                     e.line[q] \in Whitespace}
            IN IF e.outcome # "ok"
               THEN [outcome |-> e.outcome, mark |-> <<>>, n |-> e.n]
               ELSE IF closing = {}
               THEN [outcome |-> "AttributeError", mark |-> <<>>, n |-> e.n]
               ELSE LET p == CHOOSE p \in closing : \A q \in closing : p <= q
                    IN [outcome |-> "ok",
                        mark |-> unescape(SubSeq(e.line, 3, p - 1)),
                        n |-> e.n]

\* parse_line on a "key = number" line.
parse_line(x) == round(x)

\* -------------------------------------------------------------- TextGrid

TextGrid(name, minTime, maxTime, strict) ==
    [name |-> name, minTime |-> minTime, maxTime |-> maxTime,
     tiers |-> <<>>, strict |-> strict]

\* o.strict = v: the attribute is made when the object has none.
setStrict(o, v) ==
    [a \in DOMAIN o \cup {"strict"} |-> IF a = "strict" THEN v ELSE o[a]]

withElems(t, es) ==
    IF t.class = "IntervalTier" THEN [t EXCEPT !.intervals = es]
    ELSE [t EXCEPT !.points = es]

GridResult(outcome, self) == [outcome |-> outcome, grid |-> self]

TextGrid_append(self, t) ==
    IF self.maxTime # None /\ t.maxTime # None
       /\ t.maxTime[1] > self.maxTime[1]
    THEN GridResult("too_late", self)
    ELSE LET es == Elems(t)
             marked == [k \in 1 .. Len(es) |-> setStrict(es[k], self.strict)]
         IN GridResult("ok",
                [self EXCEPT !.tiers =
                    Append(@, withElems(setStrict(t, self.strict), marked))])

\* t.maxTime if t.maxTime else t[-1].maxTime
tierEnd(t) ==
    IF Truthy(t.maxTime) THEN [outcome |-> "ok", val |-> t.maxTime[1]]
    ELSE IF Elems(t) = <<>> THEN [outcome |-> "IndexError", val |-> 0]
    ELSE IF ~HasAttr(Elems(t)[Len(Elems(t))], "maxTime")
    THEN [outcome |-> "AttributeError", val |-> 0]
    ELSE [outcome |-> "ok", val |-> Elems(t)[Len(Elems(t))].maxTime]

\* The xmax that write computes: the first tier without an end makes the
\* list comprehension fail, and max() of no tier fails.
maxT(self) ==
    IF Truthy(self.maxTime) THEN [outcome |-> "ok", val |-> self.maxTime[1]]
    ELSE LET ends == [i \in 1 .. Len(self.tiers) |-> tierEnd(self.tiers[i])]
             bad == {i \in 1 .. Len(ends) : ends[i].outcome # "ok"}
         IN IF bad # {} THEN ends[CHOOSE i \in bad : \A j \in bad : i <= j]
            ELSE IF ends = <<>> THEN [outcome |-> "ValueError", val |-> 0]
            ELSE [outcome |-> "ok",
                  val |-> CHOOSE x \in {ends[i].val : i \in 1 .. Len(ends)} :
                             \A i \in 1 .. Len(ends) : x >= ends[i].val]

writeInterval(interval) ==
    [xmin |-> interval.minTime, xmax |-> interval.maxTime,
     text |-> print(<<"text = ", Quote>> \o _formatMark(interval.mark)
                    \o <<Quote>>)]

writePoint(point) ==
    [time |-> point.time,
     mark |-> print(<<"mark = ", Quote>> \o _formatMark(point.mark)
                    \o <<Quote>>)]

writeTier(t, xmax, null) ==
    IF t.class = "IntervalTier"
    THEN LET output == fillInTheGaps(t, null)
         IN [class |-> "IntervalTier", name |-> str(t.name),
             xmin |-> t.minTime, xmax |-> xmax, size |-> Len(output),
             entries |-> [j \in 1 .. Len(output) |-> writeInterval(output[j])]]
    ELSE [class |-> "TextTier", name |-> str(t.name),
          xmin |-> t.minTime, xmax |-> xmax, size |-> Len(t.points),
          entries |-> [k \in 1 .. Len(t.points) |-> writePoint(t.points[k])]]

\* The outcome and the file written; a write that fails leaves no file to
\* read, and does not reach sink.close().
TextGrid_write(self, null) ==
    LET m == maxT(self)
    IN IF m.outcome # "ok" THEN [outcome |-> m.outcome, file |-> None]
       ELSE [outcome |-> "ok",
             file |-> Some([xmin |-> self.minTime, xmax |-> m.val,
                            size |-> Len(self.tiers),
                            items |-> [i \in 1 .. Len(self.tiers) |->
                                          writeTier(self.tiers[i], m.val, null)]])]

\* The loop over the intervals j .. n of one tier of the file.
RECURSIVE readIntervals(_, _, _, _)
readIntervals(itie, entries, j, n) ==
    IF j > n THEN Result("ok", itie, None)
    ELSE LET jmin == parse_line(entries[j].xmin)
             jmax == parse_line(entries[j].xmax)
             jmrk == _getMark(entries[j].text)
         IN IF jmrk.outcome # "ok" THEN Result(jmrk.outcome, itie, None)
            ELSE IF jmin < jmax
            THEN LET r == addInterval(itie, Interval(jmin, jmax, jmrk.mark))
                 IN IF r.outcome # "ok" THEN r
                    ELSE readIntervals(r.tier, entries, j + 1, n)
            ELSE readIntervals(itie, entries, j + 1, n)

RECURSIVE readPoints(_, _, _, _)
readPoints(itie, entries, j, n) ==
    IF j > n THEN Result("ok", itie, None)
    ELSE LET jtim == parse_line(entries[j].time)
             jmrk == _getMark(entries[j].mark)
         IN IF jmrk.outcome # "ok" THEN Result(jmrk.outcome, itie, None)
            ELSE LET r == addPoint(itie, Point(jtim, jmrk.mark))
                 IN IF r.outcome # "ok" THEN r
                    ELSE readPoints(r.tier, entries, j + 1, n)

\* The loop over the tiers i .. m of the file.
RECURSIVE readTiers(_, _, _, _)
readTiers(self, items, i, m) ==
    IF i > m THEN GridResult("ok", self)
    ELSE LET inam == Some(items[i].name)
             imin == parse_line(items[i].xmin)
             imax == parse_line(items[i].xmax)
             r == IF items[i].class = "IntervalTier"
                  THEN readIntervals([IntervalTier(inam, imin, Some(imax))
                                         EXCEPT !.strict = self.strict],
                                     items[i].entries, 1, items[i].size)
                  ELSE readPoints(PointTier(inam, 0, None),
                                  items[i].entries, 1, items[i].size)
         IN IF r.outcome # "ok" THEN GridResult(r.outcome, self)
            ELSE LET a == TextGrid_append(self, r.tier)
                 IN IF a.outcome # "ok" THEN a
                    ELSE readTiers(a.grid, items, i + 1, m)

TextGrid_read(self, f) ==
    readTiers([self EXCEPT !.minTime = parse_line(f.xmin),
                           !.maxTime = Some(parse_line(f.xmax))],
              f.items, 1, f.size)

\* ------------------------------------------ the TextGrid state machine

\* The tiers handed to append are grown by add from these calls.
RECURSIVE grown(_, _)
grown(t, adds) ==
    IF adds = <<>> THEN t
    ELSE grown(IF t.class = "IntervalTier"
               THEN IntervalTier_add(t, adds[1][1], adds[1][2], adds[1][3]).tier
               ELSE PointTier_add(t, adds[1][1], adds[1][2]).tier,
               Tail(adds))

T(n) == n * TicksPerStep

PoolTiers ==
    { \* no gap, grown out of order, a quote in a mark, maxTime unset
      grown(IntervalTier(Some("phones"), 0, None),
            << <<T(1), T(2), <<"a">>>>, <<0, T(1), <<Quote>>>> >>),
      \* a gap before the last interval's end and the tier's maxTime
      grown(IntervalTier(Some("words"), 0, Some(T(2))),
            << <<0, T(1), <<"a">>>> >>),
      \* no name, a negative minTime, maxTime 0, a mark of two lines
      grown(IntervalTier(None, -T(1), Some(0)),
            << <<-T(1), 0, <<"a", NL, "b">>>> >>),
      \* empty tiers, with and without a maxTime
      IntervalTier(Some("words"), 0, Some(T(2))),
      IntervalTier(Some("words"), 0, None),
      \* times between the reader's steps
      grown(IntervalTier(Some("phones"), 0, None),
            << <<1, T(1), <<"a">>>>, <<T(1), T(1) + 1, <<"b">>>> >>),
      \* overlapping intervals, grown while the tier was not strict
      grown([IntervalTier(Some("phones"), 0, None) EXCEPT !.strict = FALSE],
            << <<0, T(1), <<"a">>>>, <<0, T(2), <<"b">>>> >>),
      grown(PointTier(Some("tones"), 0, None),
            << <<T(1), <<"a">>>>, <<0, <<Quote, "b">>>> >>),
      \* a point before time 0
      grown(PointTier(Some("tones"), -T(1), Some(T(2))),
            << <<-T(1), <<"a">>>> >>),
      \* two points less than a step apart
      grown(PointTier(Some("tones"), 0, Some(T(2))),
            << <<0, <<"a">>>>, <<1, <<"b">>>> >>) }

GridMinTimes == {-T(1), 0}

GridMaxTimes == {None, Some(T(1)), Some(T(2))}

NoTier == <<>>

InitGrid ==
    /\ tier = NoTier
    /\ \E mn \in GridMinTimes, mx \in GridMaxTimes, s \in BOOLEAN :
          grid = TextGrid(None, mn, mx, s)
    /\ file = None
    /\ mlf = NoMLF
    /\ handles = {}
    /\ last = [op |-> "init", arg |-> None, outcome |-> "ok", index |-> None,
               pre |-> <<>>, out |-> <<>>]

GridAppend ==
    /\ \E t \in PoolTiers :
          LET r == TextGrid_append(grid, t)
          IN /\ Len(r.grid.tiers) <= MaxTiers
             /\ grid' = r.grid
             /\ last' = [op |-> "append", arg |-> t, outcome |-> r.outcome,
                         index |-> None, pre |-> grid.tiers, out |-> <<>>]
    /\ UNCHANGED <<tier, file, mlf, handles>>

\* write(f) with f a path: the file keeps the TextGrid it was written from,
\* and the sink write opened stays open when write raises.
GridWrite ==
    /\ LET w == TextGrid_write(grid, <<>>)
       IN /\ file' = IF w.outcome = "ok"
                     THEN Some([text |-> w.file[1], of |-> grid])
                     ELSE None
          /\ last' = [op |-> "write", arg |-> None, outcome |-> w.outcome,
                      index |-> None, pre |-> <<>>, out |-> <<>>]
          /\ handles' = IF w.outcome = "ok" THEN handles
                         ELSE handles \cup {"sink"}
    /\ UNCHANGED <<tier, grid, mlf>>

\* TextGrid(strict=s).read(f) of the file written last.
GridRead ==
    /\ file # None
    /\ \E s \in BOOLEAN :
          LET r == TextGrid_read(TextGrid(None, 0, None, s), file[1].text)
          IN last' = [op |-> "read", arg |-> None, outcome |-> r.outcome,
                      index |-> None, pre |-> <<>>, out |-> r.grid]
    /\ UNCHANGED <<tier, grid, file, mlf, handles>>

NextGrid ==
    \/ GridAppend
    \/ GridWrite
    \/ GridRead

SpecGrid == InitGrid /\ [][NextGrid]_vars

\* ================================================= the TextGrid claims

\* The TextGrid the file read last was written from, and the one read.
Written == file[1].of

ReadBack == last.out

\* An element as the reader's precision shows it.
Rounded(x) ==
    [minTime |-> round(ElemMin(x)), maxTime |-> round(ElemMax(x)),
     mark |-> x.mark]

Bare(x) == [minTime |-> ElemMin(x), maxTime |-> ElemMax(x), mark |-> x.mark]

EachBare(es) == [k \in 1 .. Len(es) |-> Bare(es[k])]

EachRounded(es) == [k \in 1 .. Len(es) |-> Rounded(es[k])]

\* A tier the round-trip law speaks of: named, holding an element, every
\* element distinct from the next and of positive length at the reader's
\* precision, and no two intervals overlapping.
NonDegenerate(t) ==
    /\ t.name # None
    /\ Elems(t) # <<>>
    /\ \A k \in 1 .. Len(Elems(t)) :
          /\ t.class = "IntervalTier" =>
                round(Elems(t)[k].minTime) < round(Elems(t)[k].maxTime)
          /\ \A j \in 1 .. k - 1 :
                IF t.class = "IntervalTier"
                THEN ~Meets(Elems(t)[j], Elems(t)[k].minTime, Elems(t)[k].maxTime)
                ELSE round(Elems(t)[j].time) # round(Elems(t)[k].time)

NoOverlap(t) ==
    t.class = "IntervalTier" =>
        \A j, k \in 1 .. Len(t.intervals) :
           j # k => ~Meets(t.intervals[j], t.intervals[k].minTime,
                           t.intervals[k].maxTime)

Lasting(x) == x.minTime < x.maxTime

\* What a tier is read back as: its points, or its intervals with a filler
\* of mark "" in every gap up to the tier's own maxTime, at the reader's
\* precision and without the intervals that have no length there.
AsWritten(t) ==
    IF t.class = "IntervalTier"
    THEN SelectSeq(EachRounded(fillInTheGaps(t, <<>>)), Lasting)
    ELSE EachRounded(t.points)

C10_AppendChecksBounds ==
    last.op = "append" =>
        IF \/ last.arg.minTime < grid.minTime
           \/ /\ last.arg.maxTime # None /\ grid.maxTime # None
              /\ last.arg.maxTime[1] > grid.maxTime[1]
        THEN last.outcome # "ok" /\ grid.tiers = last.pre
        ELSE /\ last.outcome = "ok"
             /\ Len(grid.tiers) = Len(last.pre) + 1
             /\ SubSeq(grid.tiers, 1, Len(last.pre)) = last.pre
             /\ grid.tiers[Len(grid.tiers)].name = last.arg.name
             /\ EachBare(Elems(grid.tiers[Len(grid.tiers)]))
                   = EachBare(Elems(last.arg))

\* ======================================= the TextGrid as a list of tiers

\* min() and max() of a non-empty list of numbers.
min(a) == CHOOSE x \in {a[i] : i \in 1 .. Len(a)} :
             \A i \in 1 .. Len(a) : x <= a[i]

max(a) == CHOOSE x \in {a[i] : i \in 1 .. Len(a)} :
             \A i \in 1 .. Len(a) : x >= a[i]

\* extend(tiers): min() of no tier raises ValueError; the tiers are taken as
\* they are.
TextGrid_extend(self, tiers) ==
    LET minTimes == [i \in 1 .. Len(tiers) |-> tiers[i].minTime]
    IN IF tiers = <<>> THEN GridResult("ValueError", self)
       ELSE IF min(minTimes) < self.minTime THEN GridResult("too_early", self)
       ELSE IF Truthy(self.maxTime) /\ max(minTimes) > self.maxTime[1]
       THEN GridResult("too_late", self)
       ELSE GridResult("ok", [self EXCEPT !.tiers = @ \o tiers])

\* list.pop(i): i counts from the end when negative; None is returned here
\* for IndexError.
list_pop(a, i) ==
    LET k == IF i < 0 THEN i + Len(a) ELSE i
    IN IF k \in 0 .. Len(a) - 1 THEN Some(k) ELSE None

\* pop(i=None): the outcome, the TextGrid after it, the tier returned and
\* the 0-based position it was taken from.
TextGrid_pop(self, i) ==
    LET k == IF Truthy(i) THEN list_pop(self.tiers, i[1])
             ELSE list_pop(self.tiers, -1)
    IN IF k = None
       THEN [outcome |-> "IndexError", grid |-> self, tier |-> None,
             index |-> None]
       ELSE [outcome |-> "ok",
             grid |-> [self EXCEPT !.tiers = list_delete(@, k[1])],
             tier |-> Some(self.tiers[k[1] + 1]), index |-> k]

\* The tiers handed to append and extend: as constructed or grown by add,
\* with bounds inside, at and outside the TextGrid's.
ListTiers ==
    { IntervalTier(Some("a"), 0, None),
      grown(IntervalTier(Some("b"), 0, Some(1)), << <<0, 1, <<"x">>>> >>),
      IntervalTier(Some("c"), 1, Some(2)),
      IntervalTier(Some("d"), -1, Some(0)),
      grown(PointTier(Some("p"), 0, Some(2)), << <<1, <<"x">>>> >>) }

ListMaxTimes == {None, Some(0), Some(1), Some(2)}

\* The lists handed to extend: of no tier, one tier and two tiers.
TierLists ==
    {<<>>} \cup {<<t>> : t \in ListTiers}
           \cup {<<t, u>> : t \in ListTiers, u \in ListTiers}

\* The indexes handed to pop: none, and every index in and out of range.
PopIndexes == {None} \cup {Some(i) : i \in -(MaxTiers + 1) .. MaxTiers}

InitTiers ==
    /\ tier = NoTier
    /\ \E mx \in ListMaxTimes, s \in BOOLEAN : grid = TextGrid(None, 0, mx, s)
    /\ file = None
    /\ mlf = NoMLF
    /\ handles = {}
    /\ last = [op |-> "init", arg |-> None, outcome |-> "ok", index |-> None,
               pre |-> <<>>, out |-> <<>>]

AppendTier ==
    /\ \E t \in ListTiers :
          LET r == TextGrid_append(grid, t)
          IN /\ Len(r.grid.tiers) <= MaxTiers
             /\ grid' = r.grid
             /\ last' = [op |-> "append", arg |-> None, outcome |-> r.outcome,
                         index |-> None, pre |-> <<>>, out |-> <<>>]
    /\ UNCHANGED <<tier, file, mlf, handles>>

ExtendTiers ==
    /\ \E ts \in TierLists :
          LET r == TextGrid_extend(grid, ts)
          IN /\ Len(r.grid.tiers) <= MaxTiers
             /\ grid' = r.grid
             /\ last' = [op |-> "extend", arg |-> None, outcome |-> r.outcome,
                         index |-> None, pre |-> <<>>, out |-> <<>>]
    /\ UNCHANGED <<tier, file, mlf, handles>>

PopTier ==
    /\ \E i \in PopIndexes :
          LET r == TextGrid_pop(grid, i)
          IN /\ grid' = r.grid
             /\ last' = [op |-> "pop", arg |-> i, outcome |-> r.outcome,
                         index |-> r.index, pre |-> grid.tiers, out |-> r.tier]
    /\ UNCHANGED <<tier, file, mlf, handles>>

\* add on an IntervalTier the TextGrid holds: textgrid[k].add(s, e, mark).
AddThroughTier ==
    /\ \E k \in 1 .. Len(grid.tiers), s \in 0 .. 2, e \in 0 .. 2 :
          /\ grid.tiers[k].class = "IntervalTier"
          /\ LET r == IntervalTier_add(grid.tiers[k], s, e, <<"y">>)
             IN /\ Len(r.tier.intervals) <= 1
                /\ grid' = [grid EXCEPT !.tiers[k] = r.tier]
                /\ last' = [op |-> "add", arg |-> None, outcome |-> r.outcome,
                            index |-> Some(k - 1), pre |-> <<>>, out |-> <<>>]
    /\ UNCHANGED <<tier, file, mlf, handles>>

NextTiers ==
    \/ AppendTier
    \/ ExtendTiers
    \/ PopTier
    \/ AddThroughTier

SpecTiers == InitTiers /\ [][NextTiers]_vars

\* ======================================== the claims on the list of tiers

\* C11: in a TextGrid whose maxTime is set, after any append, extend and
\* pop calls, every tier whose own maxTime is set has it at or below the
\* TextGrid's.
C11_TierMaxWithinSet ==
    grid.maxTime # None =>
        \A k \in 1 .. Len(grid.tiers) :
           grid.tiers[k].maxTime # None
           => grid.tiers[k].maxTime[1] <= grid.maxTime[1]

\* C12: after any append and extend calls, every tier the TextGrid holds
\* has the TextGrid's strict flag, and so has every interval of the tier,
\* held when it was added or inserted later through the tier's add.
C12_StrictPropagated ==
    \A k \in 1 .. Len(grid.tiers) :
       /\ HasAttr(grid.tiers[k], "strict")
       /\ grid.tiers[k].strict = grid.strict
       /\ grid.tiers[k].class = "IntervalTier" =>
             \A j \in 1 .. Len(grid.tiers[k].intervals) :
                grid.tiers[k].intervals[j].strict = grid.strict

\* C16: pop(i) removes and returns the tier at index i, for i = 0 too, and
\* leaves the others in their order; pop() removes and returns the last
\* tier; on an empty TextGrid or an index out of range it raises IndexError
\* and leaves the tiers as they were.
C16_PopTakesIndex ==
    last.op = "pop" =>
        LET n == Len(last.pre)
            k == IF last.arg = None THEN n - 1
                 ELSE IF last.arg[1] < 0 THEN last.arg[1] + n
                 ELSE last.arg[1]
        IN IF k \in 0 .. n - 1
           THEN /\ last.outcome = "ok"
                /\ last.out = Some(last.pre[k + 1])
                /\ grid.tiers = SubSeq(last.pre, 1, k) \o SubSeq(last.pre, k + 2, n)
           ELSE /\ last.outcome = "IndexError"
                /\ grid.tiers = last.pre

\* ============================================ the claim on written tiers

\* C20: in the file write makes, the intervals emitted for an IntervalTier
\* cover the span written for the tier: the first starts at the tier's
\* xmin, the last ends at the tier's xmax, and each ends where the next
\* starts.
C20_WrittenIntervalsCover ==
    file # None =>
        \A i \in 1 .. Len(file[1].text.items) :
           LET item == file[1].text.items[i]
               n == Len(item.entries)
           IN item.class = "IntervalTier" =>
                 /\ n > 0
                 /\ item.entries[1].xmin = item.xmin
                 /\ item.entries[n].xmax = item.xmax
                 /\ \A j \in 1 .. n - 1 :
                       item.entries[j].xmax = item.entries[j + 1].xmin

\* ============================================================ the MLF

\* MLF.read is modelled line by line: the reader's state is the position in
\* its loops (pc: "name" before a filename line, "records" inside an
\* utterance, "closed" after source.close(), "failed" after an exception),
\* the list of TextGrids, and the accumulators of the utterance.  A line
\* is the filename its quoted text gives, if any, and its fields after
\* rstrip().split(); times are file samples, and the times of the tiers
\* are in units of the rounding precision.  The reader also keeps what it
\* has read: the lines of the utterance (block), the number of records of
\* the file (nrec) and, for each TextGrid appended, the filename, the
\* records and whether a period ended the utterance (done).

\* Samples per unit of the rounding precision:
\* samplerate = 10e6 and 10^-DEFAULT_MLF_PRECISION seconds.
SamplesPerStep == 100

\* Most records a file holds.
MaxRecords == 3

\* float(x) / samplerate taken as it is.
mlfTime_noRounding(x) == x

\* round(float(x) / samplerate, round_digits)
mlfTime(x) == (2 * x + SamplesPerStep) \div (2 * SamplesPerStep)

Line(name, fields) == [name |-> name, fields |-> fields]

\* The state after open(f, 'r') and the header line.
MLF_open ==
    [pc |-> "name", error |-> "", grids |-> <<>>, grid |-> NoGrid,
     phon |-> NoTier, word |-> NoTier, wmrk |-> <<>>, wsrt |-> 0, wend |-> 0,
     block |-> <<>>, done |-> <<>>, nrec |-> 0]

\* An exception ends the read: the locals go with the frame, the list of
\* TextGrids stays as it was.
Fail(st, error) ==
    [MLF_open EXCEPT !.pc = "failed", !.error = error, !.grids = st.grids]

\* The filename line that leaves the pending word of the utterance before
\* as it is.
readName_noReset(st, line) ==
    IF line.name # None
    THEN [st EXCEPT !.pc = "records",
                    !.grid = TextGrid(line.name, 0, None, TRUE),
                    !.phon = IntervalTier(Some("phones"), 0, None),
                    !.word = IntervalTier(Some("words"), 0, None),
                    !.block = <<line>>]
    ELSE [st EXCEPT !.pc = "closed"]

\* The line read where a filename is due: a quoted name starts an
\* utterance, any other line closes the source and ends the read.
readName(st, line) ==
    IF line.name # None
    THEN [st EXCEPT !.pc = "records",
                    !.grid = TextGrid(line.name, 0, None, TRUE),
                    !.phon = IntervalTier(Some("phones"), 0, None),
                    !.word = IntervalTier(Some("words"), 0, None),
                    !.wmrk = <<>>, !.wsrt = 0, !.wend = 0,
                    !.block = <<line>>]
    ELSE [st EXCEPT !.pc = "closed"]

\* word.add(wsrt, wend, wmrk)
flush(st) ==
    LET w == IntervalTier_add(st.word, st.wsrt, st.wend, st.wmrk)
    IN IF w.outcome # "ok" THEN Fail(st, w.outcome)
       ELSE [st EXCEPT !.word = w.tier]

\* len(line) == 4
record4(st, line) ==
    LET pmin == mlfTime(line.fields[1])
        pmax == mlfTime(line.fields[2])
        p == IntervalTier_add(st.phon, pmin, pmax, line.fields[3])
        s1 == [st EXCEPT !.phon = p.tier, !.block = Append(@, line), !.nrec = @ + 1]
        s2 == IF st.wmrk # <<>> THEN flush(s1) ELSE s1
    IN IF pmin = pmax THEN Fail(st, "null_duration")
       ELSE IF p.outcome # "ok" THEN Fail(st, p.outcome)
       ELSE IF s2.pc = "failed" THEN s2
       ELSE [s2 EXCEPT !.wmrk = line.fields[4], !.wsrt = pmin, !.wend = pmax]

SP == <<"s", "p">>

\* The 3-field record that takes sp for a phone like any other.
record3_spIsPhone(st, line) ==
    LET pmin == mlfTime(line.fields[1])
        pmax == mlfTime(line.fields[2])
        p == IntervalTier_add(st.phon, pmin, pmax, line.fields[3])
        s0 == [st EXCEPT !.block = Append(@, line), !.nrec = @ + 1]
    IN IF pmin # pmax
       THEN IF p.outcome # "ok" THEN Fail(st, p.outcome)
            ELSE [s0 EXCEPT !.phon = p.tier, !.wend = pmax]
       ELSE [s0 EXCEPT !.wend = pmax]

\* len(line) == 3
record3(st, line) ==
    LET pmin == mlfTime(line.fields[1])
        pmax == mlfTime(line.fields[2])
        p == IntervalTier_add(st.phon, pmin, pmax, line.fields[3])
        s0 == [st EXCEPT !.block = Append(@, line), !.nrec = @ + 1]
        s1 == IF st.wmrk # <<>> THEN flush(s0) ELSE s0
    IN IF line.fields[3] = SP /\ pmin # pmax
       THEN IF s1.pc = "failed" THEN s1
            ELSE [s1 EXCEPT !.wmrk = line.fields[3], !.wsrt = pmin,
                            !.wend = pmax]
       ELSE IF pmin # pmax
       THEN IF p.outcome # "ok" THEN Fail(st, p.outcome)
            ELSE [s0 EXCEPT !.phon = p.tier, !.wend = pmax]
       ELSE [s0 EXCEPT !.wend = pmax]

\* Any other line: "it's a period".  The pending word is added, the
\* TextGrid is appended to the list and takes the two tiers.
endUtterance(st, line) ==
    LET s1 == flush(st)
        g1 == TextGrid_append(s1.grid, s1.phon)
        g2 == TextGrid_append(g1.grid, s1.word)
    IN IF s1.pc = "failed" THEN s1
       ELSE [s1 EXCEPT !.pc = "name",
                       !.grids = Append(@, g2.grid),
                       !.done = Append(@, [name |-> st.grid.name,
                                           records |-> Tail(st.block),
                                           period |-> line.fields = <<".">>])]

\* One turn of the loop over the lines of an utterance.
readRecord(st, line) ==
    IF Len(line.fields) = 4 THEN record4(st, line)
    ELSE IF Len(line.fields) = 3 THEN record3(st, line)
    ELSE endUtterance(st, line)

\* MLF.write: each TextGrid is written to a handle opened for it; the
\* first write that raises ends the call and leaves its handle open.
RECURSIVE writeGrids(_, _)
writeGrids(grids, i) ==
    IF i > Len(grids) THEN [outcome |-> "ok", written |-> i - 1]
    ELSE LET w == TextGrid_write(grids[i], <<>>)
         IN IF w.outcome # "ok" THEN [outcome |-> w.outcome, written |-> i - 1]
            ELSE writeGrids(grids, i + 1)

MLF_write(self) == writeGrids(self.grids, 1)

\* ------------------------------------------------ the MLF state machine

FileNames == {"a.lab", "b.lab"}

NameLine(n) == Line(Some(n), <<n>>)

Period == Line(None, <<".">>)

EndOfFile == Line(None, <<>>)

K == <<"k">>

AE == <<"a", "e">>

TT == <<"t">>

CAT == <<"c", "a", "t">>

DOG == <<"d", "o", "g">>

\* The records a line can be: the three stretches of an utterance as
\* phones, as words and as pauses, stretches that round to no duration,
\* and a phone lying over two others.
RecordLines ==
    { Line(None, <<0, 500000, K>>),
      Line(None, <<500000, 1200000, AE>>),
      Line(None, <<1200000, 1800000, TT>>),
      Line(None, <<0, 500000, K, CAT>>),
      Line(None, <<500000, 1200000, AE, DOG>>),
      Line(None, <<1200000, 1800000, TT, CAT>>),
      Line(None, <<500000, 1200000, SP>>),
      Line(None, <<1200000, 1800000, SP>>),
      Line(None, <<500000, 500040, SP>>),
      Line(None, <<0, 40, K>>),
      Line(None, <<0, 40, K, CAT>>),
      Line(None, <<0, 1200000, AE>>) }

\* The records of the files that are read: an utterance of two phones and a
\* word, a word at its start, a pause, a pause that rounds to no duration,
\* a word and a phone that round to no duration, and a phone lying over two
\* others.
FileLines ==
    { Line(None, <<0, 500000, K>>),
      Line(None, <<500000, 1200000, AE>>),
      Line(None, <<1200000, 1800000, TT, CAT>>),
      Line(None, <<0, 500000, K, CAT>>),
      Line(None, <<500000, 1200000, SP>>),
      Line(None, <<500000, 500040, SP>>),
      Line(None, <<0, 40, K, CAT>>),
      Line(None, <<0, 40, K>>),
      Line(None, <<0, 1200000, AE>>) }

\* The lines that are no record: the period, the end of the file (or a
\* blank line), a line of two fields, one of five, and a filename.
OtherLines ==
    { Period, EndOfFile,
      Line(None, <<0, 500000>>),
      Line(None, <<0, 500000, K, CAT, DOG>>),
      NameLine("b.lab") }

InitMLF ==
    /\ tier = NoTier
    /\ grid = NoGrid
    /\ file = None
    /\ mlf = NoMLF
    /\ handles = {}
    /\ last = [op |-> "init", arg |-> None, outcome |-> "ok", index |-> None,
               pre |-> <<>>, out |-> <<>>]

MLFOpen ==
    /\ mlf = NoMLF
    /\ mlf' = MLF_open
    /\ handles' = handles \cup {"source"}
    /\ last' = [op |-> "open", arg |-> None, outcome |-> "ok", index |-> None,
                pre |-> <<>>, out |-> <<>>]
    /\ UNCHANGED <<tier, grid, file>>

\* The filenames of the utterances read so far.
NamesRead == {mlf.done[i].name[1] : i \in 1 .. Len(mlf.done)}

\* The line where a filename is due: the filename of an utterance not yet
\* in the file, the end of the file, or some other line.
MLFReadName ==
    /\ mlf # NoMLF
    /\ mlf.pc = "name"
    /\ \E line \in {NameLine(n) : n \in FileNames \ NamesRead}
                   \cup {EndOfFile, Line(None, <<0, 500000, K>>)} :
          /\ line.name # None => mlf.nrec < MaxRecords
          /\ mlf' = readName(mlf, line)
          /\ handles' = IF mlf'.pc = "closed" THEN handles \ {"source"}
                        ELSE handles
          /\ last' = [op |-> "name", arg |-> None, outcome |-> "ok",
                      index |-> None, pre |-> <<>>, out |-> <<>>]
    /\ UNCHANGED <<tier, grid, file>>

\* A line inside an utterance, the records of an utterance coming in the
\* order of their start samples; an exception leaves the source open.
MLFReadRecord ==
    /\ mlf # NoMLF
    /\ mlf.pc = "records"
    /\ \E line \in FileLines \cup OtherLines :
          /\ line \in FileLines =>
                /\ mlf.nrec < MaxRecords
                /\ Len(mlf.block) > 1 =>
                      line.fields[1] >= mlf.block[Len(mlf.block)].fields[1]
          /\ mlf' = readRecord(mlf, line)
          /\ last' = [op |-> "record", arg |-> None,
                      outcome |-> IF mlf'.pc = "failed" THEN mlf'.error
                                  ELSE "ok",
                      index |-> None, pre |-> <<>>, out |-> <<>>]
    /\ UNCHANGED <<tier, grid, file, handles>>

\* MLF.write on the MLF that was read.
MLFWrite ==
    /\ mlf # NoMLF
    /\ mlf.pc = "closed"
    /\ LET w == MLF_write(mlf)
       IN /\ handles' = IF w.outcome = "ok" THEN handles
                        ELSE handles \cup {"sink"}
          /\ last' = [op |-> "write", arg |-> None, outcome |-> w.outcome,
                      index |-> Some(w.written), pre |-> <<>>, out |-> <<>>]
    /\ UNCHANGED <<tier, grid, file, mlf>>

NextMLF ==
    \/ MLFOpen
    \/ MLFReadName
    \/ MLFReadRecord
    \/ MLFWrite

SpecMLF == InitMLF /\ [][NextMLF]_vars

\* ===================================================== the MLF claims

Exited == mlf # NoMLF /\ mlf.pc \in {"closed", "failed"}

\* C15: when a read or a write has ended, by returning or by raising, the
\* file handles it opened are released: none is open.
C15_HandlesReleased == Exited => handles = {}

Reading == mlf # NoMLF /\ mlf.pc = "records"

\* C13: inside an utterance, a line that has neither three nor four fields
\* and is not the single period is a malformed record: the read fails with
\* a format error and no TextGrid is appended for the utterance.
C13_MalformedLineFails ==
    Reading =>
        \A line \in OtherLines \ {Period} :
           LET r == readRecord(mlf, line)
           IN /\ r.pc = "failed"
              /\ r.error = "format_error"
              /\ r.grids = mlf.grids

\* The utterance of the scenario: k, ae, and t carrying the word cat.
Scenario ==
    << Line(None, <<0, 500000, K>>),
       Line(None, <<500000, 1200000, AE>>),
       Line(None, <<1200000, 1800000, TT, CAT>>) >>

\* The i-th utterance read was the scenario, ended by the period.
ScenarioRead(i) == mlf.done[i].records = Scenario /\ mlf.done[i].period

\* Times in steps of 1e-5 s: 0.05 s, 0.12 s, 0.18 s.
ScenarioPhones ==
    << Interval(0, 5000, K), Interval(5000, 12000, AE),
       Interval(12000, 18000, TT) >>

\* C14 as stated: the scenario yields the three phones and the word cat
\* from 0 to 0.18.
C14_ScenarioWordFromZero ==
    mlf # NoMLF =>
        \A i \in 1 .. Len(mlf.done) :
           ScenarioRead(i) =>
              /\ mlf.grids[i].tiers[1].intervals = ScenarioPhones
              /\ mlf.grids[i].tiers[2].intervals = <<Interval(0, 18000, CAT)>>

\* C14: the scenario yields the three phones and the word cat over the
\* record that carries the label, from 0.12 to 0.18.
C14_ScenarioWordFromLabel ==
    mlf # NoMLF =>
        \A i \in 1 .. Len(mlf.done) :
           ScenarioRead(i) =>
              /\ mlf.grids[i].tiers[1].intervals = ScenarioPhones
              /\ mlf.grids[i].tiers[2].intervals
                    = <<Interval(12000, 18000, CAT)>>

C14_Witness ==
    /\ mlf # NoMLF
    /\ mlf.pc = "closed"
    /\ \E i \in 1 .. Len(mlf.done) : ScenarioRead(i)

\* The lines of an utterance read one after the other, up to an exception.
RECURSIVE readLines(_, _, _)
readLines(st, lines, i) ==
    IF i > Len(lines) \/ st.pc = "failed" THEN st
    ELSE readLines(readRecord(st, lines[i]), lines, i + 1)

\* The TextGrid of an utterance that is alone in its file, none when the
\* read of that file fails.
readAlone(b) ==
    LET st == readLines(readName(MLF_open, NameLine(b.name[1])),
                        b.records \o <<Period>>, 1)
    IN IF st.pc = "failed" THEN NoGrid ELSE st.grids[1]

WellFormed == \A i \in 1 .. Len(mlf.done) : mlf.done[i].period

IsWordStart(rec) ==
    \/ Len(rec.fields) = 4
    \/ /\ rec.fields[3] = SP
       /\ mlfTime(rec.fields[1]) # mlfTime(rec.fields[2])

\* The position of the first word-starting record after the j-th, one past
\* the last record when there is none.
NextStart(recs, j) ==
    LET later == {k \in j + 1 .. Len(recs) : IsWordStart(recs[k])}
    IN IF later = {} THEN Len(recs) + 1
       ELSE CHOOSE k \in later : \A m \in later : k <= m

\* One word for each word-starting record from the j-th on, in record
\* order: its label, from its start to the end of the last record before
\* the next word-starting record.
RECURSIVE wordsFrom(_, _)
wordsFrom(recs, j) ==
    IF j > Len(recs) THEN <<>>
    ELSE IF IsWordStart(recs[j])
    THEN << Interval(mlfTime(recs[j].fields[1]),
                     mlfTime(recs[NextStart(recs, j) - 1].fields[2]),
                     recs[j].fields[Len(recs[j].fields)]) >>
         \o wordsFrom(recs, j + 1)
    ELSE wordsFrom(recs, j + 1)

\* C18: in every utterance read, the words tier holds one interval for each
\* word-starting record, in record order, with that record's label and
\* start, ending where the last record before the next word-starting
\* record (or before the period) ends.
C18_WordsFromWordStarts ==
    (mlf # NoMLF /\ mlf.pc # "failed") =>
        \A i \in 1 .. Len(mlf.done) :
           mlf.done[i].period =>
              mlf.grids[i].tiers[2].intervals
                 = wordsFrom(mlf.done[i].records, 1)

\* The intervals a tier holds.
Held(t) == {t.intervals[k] : k \in 1 .. Len(t.intervals)}

\* The tier t with the one interval x more.
OneMore(t0, t, x) ==
    /\ Len(t.intervals) = Len(t0.intervals) + 1
    /\ Held(t) = Held(t0) \cup {x}

ThreeFieldLines == {line \in RecordLines : Len(line.fields) = 3}

\* C19: a 3-field sp record with a rounded duration adds no phone, adds the
\* pending word to the words tier if there is one, and makes sp the pending
\* word with the record's bounds; a 3-field record without rounded
\* duration adds nothing to either tier; every other 3-field record adds
\* the one phone with its label and bounds and leaves the pending word's
\* label and start as they are.  The record fails exactly when the tier
\* refuses the interval added.
C19_ThreeFieldRecord ==
    Reading =>
        \A line \in ThreeFieldLines :
           LET r == readRecord(mlf, line)
               pmin == mlfTime(line.fields[1])
               pmax == mlfTime(line.fields[2])
               pending == Interval(mlf.wsrt, mlf.wend, mlf.wmrk)
               phone == Interval(pmin, pmax, line.fields[3])
           IN IF line.fields[3] = SP /\ pmin # pmax
              THEN /\ r.pc = "failed" <=>
                        /\ mlf.wmrk # <<>>
                        /\ IntervalTier_add(mlf.word, mlf.wsrt, mlf.wend,
                                            mlf.wmrk).outcome # "ok"
                   /\ r.pc # "failed" =>
                        /\ r.phon = mlf.phon
                        /\ IF mlf.wmrk # <<>>
                           THEN OneMore(mlf.word, r.word, pending)
                           ELSE r.word = mlf.word
                        /\ r.wmrk = SP
                        /\ r.wsrt = pmin
                        /\ r.wend = pmax
              ELSE IF pmin = pmax
              THEN /\ r.pc # "failed"
                   /\ r.phon = mlf.phon
                   /\ r.word = mlf.word
                   /\ r.wmrk = mlf.wmrk
                   /\ r.wsrt = mlf.wsrt
              ELSE /\ r.pc = "failed" <=>
                        IntervalTier_add(mlf.phon, pmin, pmax,
                                         line.fields[3]).outcome # "ok"
                   /\ r.pc # "failed" =>
                        /\ OneMore(mlf.phon, r.phon, phone)
                        /\ r.word = mlf.word
                        /\ r.wmrk = mlf.wmrk
                        /\ r.wsrt = mlf.wsrt
                        /\ r.wend = pmax

\* An sp record with a duration has been read while a word was pending:
\* the word is in the words tier, sp is pending, no phone was added for it.
C19_Witness ==
    /\ Reading
    /\ Len(mlf.block) = 3
    /\ Len(mlf.block[2].fields) = 4
    /\ mlf.block[3].fields[3] = SP
    /\ mlf.wmrk = SP
    /\ Len(mlf.word.intervals) = 1
    /\ Len(mlf.phon.intervals) = 1

\* ============================================ the entry of a mark

\* Most characters a mark holds.
MaxMark == 3

\* The characters of a mark: a letter, the double quote, the newline and
\* the blank.
MarkChars == {"x", Quote, NL, " "}

MarkStrings == UNION {[1 .. k -> MarkChars] : k \in 0 .. MaxMark}

\* What follows the entry in the file: nothing, or the entry after it.
Following == {<<>>, <<"text = ", Quote, "x", Quote, NL>>}

\* The characters of the lines, one after the other.
RECURSIVE Flat(_)
Flat(lines) == IF lines = <<>> THEN <<>> ELSE Head(lines) \o Flat(Tail(lines))

\* The file holding the entry of the mark and what follows it, as the
\* lines readline() returns.
MarkFile(mark, rest) ==
    [mark |-> mark,
     lines |-> splitlines(Flat(writeInterval(Interval(0, 1, mark)).text)
                          \o rest, <<>>),
     cut |-> FALSE]

InitMark ==
    /\ tier = NoTier
    /\ grid = NoGrid
    /\ file = None
    /\ mlf = NoMLF
    /\ handles = {}
    /\ last = [op |-> "init", arg |-> None, outcome |-> "ok", index |-> None,
               pre |-> <<>>, out |-> <<>>]

\* The writer's print of text = "<_formatMark(mark)>".
WriteMark ==
    /\ file = None
    /\ \E mark \in MarkStrings, rest \in Following :
          file' = Some(MarkFile(mark, rest))
    /\ last' = [last EXCEPT !.op = "write"]
    /\ UNCHANGED <<tier, grid, mlf, handles>>

\* The file ends early: only its first c characters are there.
Truncate ==
    /\ file # None
    /\ last.op = "write"
    /\ ~file[1].cut
    /\ LET text == Flat(file[1].lines)
       IN \E c \in 0 .. Len(text) - 1 :
             file' = Some([file[1] EXCEPT
                             !.lines = splitlines(SubSeq(text, 1, c), <<>>),
                             !.cut = TRUE])
    /\ UNCHANGED <<tier, grid, mlf, handles, last>>

\* _getMark(text, False) at the start of the file.
ReadMark ==
    /\ file # None
    /\ last.op = "write"
    /\ LET r == _getMark(file[1].lines)
       IN last' = [op |-> "read", arg |-> None, outcome |-> r.outcome,
                   index |-> Some(r.n), pre |-> <<>>, out |-> r.mark]
    /\ UNCHANGED <<tier, grid, file, mlf, handles>>

NextMark ==
    \/ WriteMark
    \/ Truncate
    \/ ReadMark

SpecMark == InitMark /\ [][NextMark]_vars

\* ===================================================== the mark claims

\* The characters of the entry of a mark: the key, the two quotes around
\* the mark, the mark with each of its quotes twice, and the newline.
EntryLen(mark) == Len(mark) + count(mark, Quote) + 4

\* C21: the entry the writer makes of a mark is read back by _getMark as
\* that mark, whatever quotes and newlines it holds, and takes the lines of
\* the entry and no line after them; when the file ends inside the entry
\* with an odd number of quotes read, _getMark fails with EOFError.
C21_MarkRoundTrip ==
    last.op = "read" =>
        /\ ~file[1].cut =>
              /\ last.outcome = "ok"
              /\ last.out = file[1].mark
              /\ last.index = Some(count(file[1].mark, NL) + 1)
        /\ ( /\ file[1].cut
             /\ Len(Flat(file[1].lines)) < EntryLen(file[1].mark)
             /\ count(Flat(file[1].lines), Quote) % 2 = 1 ) =>
              last.outcome = "EOFError"

\* A mark of a quote and a newline was read back, another entry following.
C21_Witness ==
    /\ last.op = "read"
    /\ ~file[1].cut
    /\ last.outcome = "ok"
    /\ count(file[1].mark, Quote) > 0
    /\ count(file[1].mark, NL) > 0
    /\ Len(Flat(file[1].lines)) > EntryLen(file[1].mark)

\* ======================================= the comparisons of an Interval

Interval_gt(self, other) ==
    IF HasAttr(other, "maxTime")
    THEN IF self.strict /\ overlaps(self, other) THEN Raise
         ELSE IF overlaps(self, other) THEN Ret(self.minTime < other.minTime)
         ELSE Ret(self.maxTime > other.maxTime)
    ELSE IF HasAttr(other, "time") THEN Ret(self.minTime > other.time)
    ELSE Ret(self.minTime > other.num)

\* The times of the operands.
CompareTimes == 0 .. MaxTime + 2

\* The Intervals that can be made: minTime < maxTime.
Intervals ==
    {Interval(se[1], se[2], <<"x">>) :
        se \in {p \in CompareTimes \X CompareTimes : p[1] < p[2]}}

\* The left operand: an Interval as made, or with strict set to False.
Selves == Intervals \cup {[i EXCEPT !.strict = FALSE] : i \in Intervals}

\* self < other, self > other and self == other.
Compared(self, other) ==
    [op |-> "compare", arg |-> [self |-> self, other |-> other],
     outcome |-> "ok", index |-> None, pre |-> <<>>,
     out |-> [lt |-> Interval_lt(self, other),
              gt |-> Interval_gt(self, other),
              eq |-> Interval_eq(self, other)]]

InitCompare ==
    /\ tier = NoTier
    /\ grid = NoGrid
    /\ file = None
    /\ mlf = NoMLF
    /\ handles = {}
    /\ last = [op |-> "init", arg |-> None, outcome |-> "ok", index |-> None,
               pre |-> <<>>, out |-> <<>>]

CompareWithInterval ==
    /\ \E self \in Selves, other \in Intervals :
          last' = Compared(self, other)
    /\ UNCHANGED <<tier, grid, file, mlf, handles>>

CompareWithPoint ==
    /\ \E self \in Selves, t \in CompareTimes :
          last' = Compared(self, Point(t, <<"y">>))
    /\ UNCHANGED <<tier, grid, file, mlf, handles>>

CompareWithNumber ==
    /\ \E self \in Selves, t \in CompareTimes :
          last' = Compared(self, Num(t))
    /\ UNCHANGED <<tier, grid, file, mlf, handles>>

NextCompare ==
    \/ CompareWithInterval
    \/ CompareWithPoint
    \/ CompareWithNumber

SpecCompare == InitCompare /\ [][NextCompare]_vars

\* ============================================== the comparison claims

\* C22: for two overlapping Intervals, with strict False self < other is
\* self.minTime < other.minTime and self > other is self.minTime >
\* other.minTime, so the two are never both true; with strict True both
\* raise.
C22_OverlapFallsBackToMinTime ==
    ( /\ last.op = "compare"
      /\ HasAttr(last.arg.other, "minTime")
      /\ overlaps(last.arg.self, last.arg.other) ) =>
        IF last.arg.self.strict
        THEN last.out.lt.raised /\ last.out.gt.raised
        ELSE /\ last.out.lt
                  = Ret(last.arg.self.minTime < last.arg.other.minTime)
             /\ last.out.gt
                  = Ret(last.arg.self.minTime > last.arg.other.minTime)
             /\ ~(last.out.lt.val /\ last.out.gt.val)

\* C23: an Interval compared with a number t gives what it gives compared
\* with Point(t, mark): == is minTime < t < maxTime, < is maxTime < t and
\* > is minTime > t.
C23_NumberAsPoint ==
    (last.op = "compare" /\ HasAttr(last.arg.other, "num")) =>
        LET self == last.arg.self
            t == last.arg.other.num
            p == Point(t, <<"y">>)
        IN /\ last.out.eq = Interval_eq(self, p)
           /\ last.out.lt = Interval_lt(self, p)
           /\ last.out.gt = Interval_gt(self, p)
           /\ last.out.eq = "True" <=> (self.minTime < t /\ t < self.maxTime)
           /\ last.out.lt = Ret(self.maxTime < t)
           /\ last.out.gt = Ret(self.minTime > t)

====
